---- MODULE Spec2Model ----
(***************************************************************************)
(* Model of the Google Search Console MCP server (GSC-MCP).                *)
(*                                                                         *)
(* The repository holds two deployment variants of the HTTP/SSE entry      *)
(* point: the per-session variant (src/unnamed/part_000 lines 1-289) that  *)
(* keeps a registry `sessions` of connections, and the process-wide        *)
(* variant (lines 290-669) that keeps one module-level `gscClient` and one *)
(* module-level `transport`.  Both use the same GSCAuth (src/src/auth.ts)  *)
(* and GSCClient (src/src/gsc.ts).  The variable `mode` selects which      *)
(* entry point is running.                                                 *)
(***************************************************************************)
EXTENDS Integers, Sequences, FiniteSets, TLC

\* ------------------------------------------------------------------ bounds
MaxIds == 2          \* number of /sse connections opened in one run
MaxInflight == 1     \* accepted posts whose handler has not run yet

\* ------------------------------------------------------------- value sets
NULL == "null"                         \* JS null / undefined for strings
NoId == 0                              \* absent session id / transport
Ids == 1..MaxIds                       \* the identifiers uuidv4() hands out

Modes == {"session", "process"}

\* authorization codes and what the token endpoint answers for them
Codes == {"c1", "c2", "bad"}
Tokens == {"tok1", "tok2"}

\* tool names a client may put in request.params.name
RequestNames == {"list_sites", "get_search_analytics", "get_top_queries",
                 "inspect_url", "get_sitemaps", "submit_sitemap", "bogus"}

\* diagnostic texts a failing backend call carries
BackendErrors == {"quota"}

\* JSON values an argument entry can hold: no entry (undefined), null, an
\* array of strings, a number
NoEntry == [t |-> "undefined", items |-> <<>>, n |-> 0]
JsNull == [t |-> "null", items |-> <<>>, n |-> 0]
JsArray(items) == [t |-> "array", items |-> items, n |-> 0]
JsNumber(n) == [t |-> "number", items |-> <<>>, n |-> n]

\* JS truthiness, as `||` tests it: undefined, null and 0 are falsy, every
\* array (the empty one too) is truthy
Truthy(x) == x.t = "array" \/ (x.t = "number" /\ x.n # 0)

\* request.params.arguments: absent, or a mapping with optional entries
Arguments(present, dimensions, limit) ==
  [present |-> present, dimensions |-> dimensions, limit |-> limit]

NoArguments == Arguments(FALSE, NoEntry, NoEntry)

\* values a client may send for an optional entry
DimensionsChoices == {NoEntry, JsArray(<<"query", "page">>), JsArray(<<>>), JsNull}
LimitChoices == {NoEntry, JsNumber(5), JsNumber(0), JsNull}

\* the argument mappings sent with a tool name; an entry is varied only for
\* the tool whose case reads it (dimensions: get_search_analytics, limit:
\* get_top_queries), the other tools get the mapping without it
ArgumentChoices(name) ==
  {NoArguments} \cup
  { Arguments(TRUE, d, l) :
      d \in (IF name = "get_search_analytics" THEN DimensionsChoices ELSE {NoEntry}),
      l \in (IF name = "get_top_queries" THEN LimitChoices ELSE {NoEntry}) }

VARIABLES
  mode,        \* which entry point is running
  sessions,    \* per-session: Map<string, Session>, id -> [gscClient]
  gscClient,   \* process-wide: module-level GSCClient | null
  transport,   \* process-wide: module-level SSEServerTransport | null
  credentials, \* credentials held by the one auth.oAuth2Client object
  tokenFile,   \* contents of TOKEN_PATH (token.json), NULL when the file is absent
  nextId,      \* next identifier uuidv4() will return
  streams,     \* identifiers whose SSE response is still open
  inflight,    \* id -> posts accepted by POST /messages for id whose body is
               \* still being read, so that their handler has not run yet
  last,        \* outcome of the handler that ran last
  opened,      \* history: identifiers for which GET /sse ran
  closed,      \* history: identifiers whose 'close' handler ran
  loads,       \* history: times the call-tool handler loaded the credential from
               \* TOKEN_PATH and built gscClient from it, since the process started
  clientFrom,  \* history: what the module-level gscClient of this process was
               \* last built from: "none", "file" (getClient) or "callback"
  catalogs     \* history: the distinct results list-tools has returned

vars == <<mode, sessions, gscClient, transport, credentials,
          tokenFile, nextId, streams, inflight, last, opened, closed, loads,
          clientFrom, catalogs>>


\* ------------------------------------------------- src/src/auth.ts: GSCAuth

\* the token endpoint behind oAuth2Client.getToken(code): "bad" is rejected
getTokenFails(code) == code = "bad"

getToken(code) == IF code = "c1" THEN "tok1" ELSE "tok2"

\* GSCAuth.getClient: fs.existsSync(TOKEN_PATH)
getClientFound(file) == file # NULL

\* GSCAuth.getClient: setCredentials(JSON.parse(readFileSync(TOKEN_PATH)))
getClientCredentials(file, creds) == IF file # NULL THEN file ELSE creds

\* GSCAuth.getAuthUrl takes no parameter; the argument a caller passes is
\* dropped and generateAuthUrl is given access_type and scope only
getAuthUrl(correlation) ==
  [access_type |-> "offline", scope |-> "webmasters.readonly", state |-> NoId]

\* GSCAuth.handleCallback after getToken resolved: setCredentials(tokens)
handleCallbackCredentials(creds, tokens) == tokens

\* variant: the tokens are kept in memory only
handleCallbackTokenFile_NoWrite(file, tokens) == file

\* GSCAuth.handleCallback after getToken resolved: writeFileSync(TOKEN_PATH, ...)
handleCallbackTokenFile(file, tokens) == tokens

\* ------------------------------------------------ src/src/gsc.ts: GSCClient

\* one request sent to the Search Console API with the credentials the
\* shared OAuth2Client holds when the call is made
Invocation(method, cred, dimensions, rowLimit) ==
  [method |-> method, cred |-> cred, dimensions |-> dimensions, rowLimit |-> rowLimit]

listSites(cred) == Invocation("sites.list", cred, NoEntry, NoEntry)

getSearchAnalytics(cred, dimensions) ==
  Invocation("searchanalytics.query", cred, dimensions, NoEntry)

inspectUrl(cred) == Invocation("urlInspection.index.inspect", cred, NoEntry, NoEntry)

listSitemaps(cred) == Invocation("sitemaps.list", cred, NoEntry, NoEntry)

submitSitemap(cred) == Invocation("sitemaps.submit", cred, NoEntry, NoEntry)

\* variant: limit || 10
getTopQueries_FalsyDefault(cred, limit) ==
  Invocation("searchanalytics.query", cred, JsArray(<<"query">>),
             IF Truthy(limit) THEN limit ELSE JsNumber(10))

\* limit: number = 10 applies when the argument is undefined, and only then;
\* dimensions: ['query'], rowLimit: limit
getTopQueries(cred, limit) ==
  Invocation("searchanalytics.query", cred, JsArray(<<"query">>),
             IF limit.t = "undefined" THEN JsNumber(10) ELSE limit)

\* ------------------------------------- call-tool handler: results and errors

BackendOutcomes == {"ok"} \cup BackendErrors

Outcome(kind, code, message, detail, invoked) ==
  [kind |-> kind, code |-> code, message |-> message, detail |-> detail,
   invoked |-> invoked]

\* return { content: [{ type: 'text', text: JSON.stringify(x, null, 2) }] }
ToolResult(invoked) == Outcome("result", "none", "content", "none", invoked)

\* throw new McpError(ErrorCode.InternalError, `Authentication required. ...`)
AuthenticationRequired ==
  Outcome("McpError", "InternalError", "Authentication required", "none", <<>>)

\* default: throw new McpError(ErrorCode.MethodNotFound, `Unknown tool: ...`)
UnknownTool ==
  Outcome("McpError", "MethodNotFound", "Unknown tool", "none", <<>>)

\* const { ... } = request.params.arguments as any, with arguments undefined:
\* a TypeError raised outside the try block
DestructureFault == Outcome("TypeError", "none", "Cannot destructure", "none", <<>>)

\* variant: catch (error) { throw error } -- the backend's error leaves as it came
WrapBackendFailure_Rethrow(prefix, diag, invoked) ==
  Outcome("Error", "none", diag, diag, invoked)

\* catch (error) { throw new McpError(ErrorCode.InternalError, `${prefix}: ${error.stack}`) }
WrapBackendFailure(prefix, diag, invoked) ==
  Outcome("McpError", "InternalError", prefix, diag, invoked)

\* try { const x = await gscClient.m(...); return {...} } catch (error) {...}
TryBackend(prefix, inv, backend) ==
  IF backend = "ok" THEN ToolResult(<<inv>>)
  ELSE WrapBackendFailure(prefix, backend, <<inv>>)

\* variant: dimensions ?? ['query']
DimensionsOrDefault_WrongDefault(args) ==
  IF Truthy(args.dimensions) THEN args.dimensions ELSE JsArray(<<"query">>)

\* dimensions || ['date']
DimensionsOrDefault(args) ==
  IF Truthy(args.dimensions) THEN args.dimensions ELSE JsArray(<<"date">>)

\* variant: the default label falls into the list_sites case
SessionDispatch_DefaultFallsThrough(name, args, cred, backend) ==
  CASE name = "get_search_analytics" ->
         IF ~args.present THEN DestructureFault
         ELSE TryBackend("Failed to get search analytics",
                         getSearchAnalytics(cred, DimensionsOrDefault(args)), backend)
    [] name = "inspect_url" ->
         IF ~args.present THEN DestructureFault
         ELSE TryBackend("Failed to inspect URL", inspectUrl(cred), backend)
    [] OTHER -> TryBackend("Failed to list sites", listSites(cred), backend)

\* switch (request.params.name) of createServer (per-session entry point)
SessionDispatch(name, args, cred, backend) ==
  CASE name = "list_sites" ->
         TryBackend("Failed to list sites", listSites(cred), backend)
    [] name = "get_search_analytics" ->
         IF ~args.present THEN DestructureFault
         ELSE TryBackend("Failed to get search analytics",
                         getSearchAnalytics(cred, DimensionsOrDefault(args)), backend)
    [] name = "inspect_url" ->
         IF ~args.present THEN DestructureFault
         ELSE TryBackend("Failed to inspect URL", inspectUrl(cred), backend)
    [] OTHER -> UnknownTool

\* switch (request.params.name) of the process-wide entry point
ProcessDispatch(name, args, cred, backend) ==
  CASE name = "list_sites" ->
         TryBackend("Failed to list sites", listSites(cred), backend)
    [] name = "get_search_analytics" ->
         IF ~args.present THEN DestructureFault
         ELSE TryBackend("Failed to get search analytics",
                         getSearchAnalytics(cred, DimensionsOrDefault(args)), backend)
    [] name = "get_top_queries" ->
         IF ~args.present THEN DestructureFault
         ELSE TryBackend("Failed to get top queries",
                         getTopQueries(cred, args.limit), backend)
    [] name = "inspect_url" ->
         IF ~args.present THEN DestructureFault
         ELSE TryBackend("Failed to inspect URL", inspectUrl(cred), backend)
    [] name = "get_sitemaps" ->
         IF ~args.present THEN DestructureFault
         ELSE TryBackend("Failed to list sitemaps", listSitemaps(cred), backend)
    [] name = "submit_sitemap" ->
         IF ~args.present THEN DestructureFault
         ELSE TryBackend("Failed to submit sitemap", submitSitemap(cred), backend)
    [] OTHER -> UnknownTool


\* ------------------------------------------------------ the session registry

EmptyRegistry == [x \in {} |-> [gscClient |-> NULL]]

\* variant: a fresh map is built for every connection
RegistrySet_Replace(reg, id) == [x \in {id} |-> [gscClient |-> NULL]]

\* sessions.set(sessionId, { id, server, transport, gscClient: null })
RegistrySet(reg, id) ==
  [x \in (DOMAIN reg) \cup {id} |-> IF x = id THEN [gscClient |-> NULL] ELSE reg[x]]

\* variant: deleting an identifier that has no entry clears the map
RegistryDelete_ClearsWhenAbsent(reg, id) ==
  IF id \in DOMAIN reg THEN [x \in (DOMAIN reg) \ {id} |-> reg[x]] ELSE EmptyRegistry

\* variant: the close listener forgets to delete
RegistryDelete_Noop(reg, id) == reg

\* sessions.delete(sessionId)
RegistryDelete(reg, id) == [x \in (DOMAIN reg) \ {id} |-> reg[x]]

\* variant: binding one session drops the client of every other session
BindClient_ResetsOthers(reg, state) ==
  [x \in DOMAIN reg |-> IF x = state THEN [gscClient |-> "GSCClient"]
                        ELSE [gscClient |-> NULL]]

\* variant: the callback answers 200 without storing a client in the entry
BindClient_Noop(reg, state) == reg

\* session.gscClient = new GSCClient(oAuthClient): the client wraps the one
\* OAuth2Client object that auth holds
BindClient(reg, state) == [reg EXCEPT ![state].gscClient = "GSCClient"]

\* variant: the handler keeps the session object it was created with and
\* tests its client only, without looking the identifier up again
SessionNeedsAuth_NoLookup(reg, sessionId) ==
  sessionId \in DOMAIN reg /\ reg[sessionId].gscClient = NULL

\* variant: if (!session) -- the bound client is not looked at
SessionNeedsAuth_EntryOnly(reg, sessionId) == sessionId \notin DOMAIN reg

\* const session = sessions.get(sessionId); if (!session || !session.gscClient)
SessionNeedsAuth(reg, sessionId) ==
  sessionId \notin DOMAIN reg \/ reg[sessionId].gscClient = NULL

\* POST /messages: if (session) ... else 404
SessionRoutable(reg, sessionId) == sessionId \in DOMAIN reg

\* --------------------------------------------------------------- responses

NoUrl == [access_type |-> "none", scope |-> "none", state |-> NoId]

\* what the handler that ran last was asked and what it answered: the HTTP
\* status of an endpoint, the outcome of a call-tool request, what the backend
\* answered to the call it received, and the stream the answer went to
Resp(op, sid, status) ==
  [op |-> op, sid |-> sid, status |-> status, name |-> "none",
   args |-> NoArguments, authCode |-> NULL,
   kind |-> "none", code |-> "none", message |-> "none", detail |-> "none",
   invoked |-> <<>>, backend |-> "none", url |-> NoUrl, stream |-> NoId,
   catalog |-> <<>>]

CallbackResp(code, state, status) ==
  [Resp("callback", state, status) EXCEPT !.authCode = code]

CallResp(msg, out, backend, stream) ==
  [op |-> "call", sid |-> msg.sid, status |-> 0, name |-> msg.name,
   args |-> msg.args, authCode |-> NULL,
   kind |-> out.kind, code |-> out.code, message |-> out.message,
   detail |-> out.detail, invoked |-> out.invoked,
   backend |-> IF out.invoked = <<>> THEN "none" ELSE backend,
   url |-> NoUrl, stream |-> stream, catalog |-> <<>>]

\* the answer to a list-tools request: { tools: [...] }
ListResp(sid, catalog, stream) ==
  [Resp("list", sid, 0) EXCEPT !.kind = "result", !.message = "tools",
                               !.catalog = catalog, !.stream = stream]

\* ------------------------------------------------------------------- Init

Init ==
  /\ mode \in Modes
  /\ sessions = EmptyRegistry
  /\ gscClient = NULL
  /\ transport = NoId
  /\ credentials = NULL
  \* token.json may be there from an earlier run; only the process-wide
  \* entry point ever reads it
  /\ tokenFile \in (IF mode = "process" THEN {NULL, "tok1"} ELSE {NULL})
  /\ nextId = 1
  /\ streams = {}
  /\ inflight = [id \in Ids |-> 0]
  /\ last = Resp("init", NoId, 0)
  /\ opened = {}
  /\ closed = {}
  /\ loads = 0
  /\ clientFrom = "none"
  /\ catalogs = {}

\* ---------------------------------------------------------------- GET /sse

\* per-session: const sessionId = uuidv4(); sessions.set(...); res.on('close', ...)
SessionSseOpen ==
  /\ mode = "session"
  /\ nextId \in Ids
  /\ sessions' = RegistrySet(sessions, nextId)
  /\ streams' = streams \cup {nextId}
  /\ opened' = opened \cup {nextId}
  /\ nextId' = nextId + 1
  /\ last' = Resp("sse", nextId, 200)
  /\ UNCHANGED <<mode, gscClient, transport, credentials, tokenFile, inflight,
                 closed, loads,
                 clientFrom, catalogs>>

\* process-wide: transport = new SSEServerTransport('/messages', res);
\* await server.connect(transport)
ProcessSseOpen ==
  /\ mode = "process"
  /\ nextId \in Ids
  /\ transport' = nextId
  /\ streams' = streams \cup {nextId}
  /\ opened' = opened \cup {nextId}
  /\ nextId' = nextId + 1
  /\ last' = Resp("sse", nextId, 200)
  /\ UNCHANGED <<mode, sessions, gscClient, credentials, tokenFile, inflight,
                 closed, loads,
                 clientFrom, catalogs>>

\* ------------------------------------------------- the response's 'close' event

\* per-session: res.on('close', () => { sessions.delete(sessionId) })
SessionSseClose(id) ==
  /\ mode = "session"
  /\ id \in streams
  /\ sessions' = RegistryDelete(sessions, id)
  /\ streams' = streams \ {id}
  /\ closed' = closed \cup {id}
  /\ last' = Resp("close", id, 0)
  /\ UNCHANGED <<mode, gscClient, transport, credentials, tokenFile, nextId,
                 inflight, opened, loads,
                 clientFrom, catalogs>>

\* per-session: the close listener of a connection runs once more after the
\* connection has closed; sessions.delete(sessionId) finds no entry
\* (Map.delete then returns false, shown as last.message = "absent")
SessionSseCloseAgain(id) ==
  /\ mode = "session"
  /\ id \in closed
  /\ sessions' = RegistryDelete(sessions, id)
  /\ last' = [Resp("close", id, 0) EXCEPT !.message = "absent"]
  /\ UNCHANGED <<mode, gscClient, transport, credentials, tokenFile, nextId,
                 streams, inflight, opened, closed, loads,
                 clientFrom, catalogs>>

\* process-wide: no 'close' listener is registered; the stream just ends
ProcessSseClose(id) ==
  /\ mode = "process"
  /\ id \in streams
  /\ streams' = streams \ {id}
  /\ closed' = closed \cup {id}
  /\ last' = Resp("close", id, 0)
  /\ UNCHANGED <<mode, sessions, gscClient, transport, credentials, tokenFile,
                 nextId, inflight, opened, loads,
                 clientFrom, catalogs>>


\* ---------------------------------------------------------- POST /messages
\* handlePostMessage first awaits the request body; what the body says (tool
\* name, arguments) reaches the server only when the handler runs.

RECURSIVE SumUpTo(_, _)
SumUpTo(f, n) == IF n = 0 THEN 0 ELSE f[n] + SumUpTo(f, n - 1)

\* number of accepted posts whose handler has not run yet
InflightCount == SumUpTo(inflight, MaxIds)

\* per-session: const session = sessions.get(sessionId);
\* if (session) await session.transport.handlePostMessage(req, res) else 404
SessionPost(id) ==
  /\ mode = "session"
  /\ IF SessionRoutable(sessions, id)
       THEN /\ InflightCount < MaxInflight
            /\ inflight' = [inflight EXCEPT ![id] = @ + 1]
            /\ last' = Resp("post", id, 202)
       ELSE /\ inflight' = inflight
            /\ last' = Resp("post", id, 404)
  /\ UNCHANGED <<mode, sessions, gscClient, transport, credentials, tokenFile,
                 nextId, streams, opened, closed, loads,
                 clientFrom, catalogs>>

\* process-wide: if (transport) await transport.handlePostMessage(req, res)
\* else 400.  A transport whose response has closed answers 500 itself
\* ("SSE connection not established") and hands nothing to the server.
\* id names the client that posts.
ProcessPost(id) ==
  /\ mode = "process"
  /\ id \in opened
  /\ IF transport = NoId
       THEN /\ inflight' = inflight
            /\ last' = Resp("post", id, 400)
       ELSE IF transport \notin streams
         THEN /\ inflight' = inflight
              /\ last' = Resp("post", id, 500)
         ELSE /\ InflightCount < MaxInflight
              /\ inflight' = [inflight EXCEPT ![id] = @ + 1]
              /\ last' = Resp("post", id, 202)
  /\ UNCHANGED <<mode, sessions, gscClient, transport, credentials, tokenFile,
                 nextId, streams, opened, closed, loads,
                 clientFrom, catalogs>>

\* ------------------------------------------------ CallToolRequestSchema handler

\* the call-tool request read from a post accepted for sid
Message(sid, name, args) == [sid |-> sid, name |-> name, args |-> args]

\* the stream a server's answer is written to: the server's transport, if its
\* response is still open
AnswerStream(id) == IF id \in streams THEN id ELSE NoId

\* per-session handler installed by createServer(sessionId)
SessionCallTool(msg, backend) ==
  /\ mode = "session"
  /\ inflight[msg.sid] > 0
  /\ inflight' = [inflight EXCEPT ![msg.sid] = @ - 1]
  /\ \E out \in {IF SessionNeedsAuth(sessions, msg.sid)
                     THEN AuthenticationRequired
                     ELSE SessionDispatch(msg.name, msg.args, credentials, backend)} :
        last' = CallResp(msg, out, backend, AnswerStream(msg.sid))
  /\ UNCHANGED <<mode, sessions, gscClient, transport, credentials, tokenFile,
                 nextId, streams, opened, closed, loads,
                 clientFrom, catalogs>>

\* process-wide: if (!gscClient) { oAuthClient = await auth.getClient();
\* if (oAuthClient) gscClient = new GSCClient(oAuthClient) else throw ... }
ProcessNeedsAuth(client, file) == client = NULL /\ ~getClientFound(file)

\* variant: the client is resolved again on every request
NeedsLoad_Always(client) == TRUE

\* if (!gscClient)
NeedsLoad(client) == client = NULL

\* `await auth.getClient()` runs getClient's body (existsSync, readFileSync,
\* setCredentials) at once and resumes the handler in a microtask, before the
\* event loop can start another request's handler; up to the backend call
\* the handler is one step.
ProcessCallTool(msg, backend) ==
  /\ mode = "process"
  /\ inflight[msg.sid] > 0
  /\ inflight' = [inflight EXCEPT ![msg.sid] = @ - 1]
  /\ IF ProcessNeedsAuth(gscClient, tokenFile)
       THEN /\ last' = CallResp(msg, AuthenticationRequired, backend,
                                 AnswerStream(transport))
            /\ UNCHANGED <<gscClient, credentials, loads, clientFrom>>
       ELSE /\ gscClient' = "GSCClient"
            /\ credentials' = IF NeedsLoad(gscClient)
                                THEN getClientCredentials(tokenFile, credentials)
                                ELSE credentials
            /\ loads' = IF NeedsLoad(gscClient) THEN loads + 1 ELSE loads
            /\ clientFrom' = IF NeedsLoad(gscClient) THEN "file" ELSE clientFrom
            /\ \E out \in {ProcessDispatch(msg.name, msg.args, credentials', backend)} :
                  last' = CallResp(msg, out, backend, AnswerStream(transport))
  /\ UNCHANGED <<mode, sessions, transport, tokenFile, nextId, streams,
                 opened, closed, catalogs>>

\* --------------------------------------------------------- GET /oauth2callback
\* Before `await auth.handleCallback(code)` settles the handler has read
\* nothing but its own query parameters, and everything after getToken runs
\* without yielding; the handler is therefore one step, taken at the moment
\* the token endpoint answers.

\* per-session: if (code && state) { try { handleCallback; sessions.get(state);
\* bind and 200, or 404 } catch { 500 } } else 400
SessionCallback(code, state) ==
  /\ mode = "session"
  /\ IF code = NULL \/ state = NoId
       THEN /\ last' = CallbackResp(code, state, 400)
            /\ UNCHANGED <<sessions, credentials, tokenFile>>
       ELSE IF getTokenFails(code)
         THEN /\ last' = CallbackResp(code, state, 500)
              /\ UNCHANGED <<sessions, credentials, tokenFile>>
         ELSE /\ credentials' = handleCallbackCredentials(credentials, getToken(code))
              /\ tokenFile' = handleCallbackTokenFile(tokenFile, getToken(code))
              /\ IF state \in DOMAIN sessions
                   THEN /\ sessions' = BindClient(sessions, state)
                        /\ last' = CallbackResp(code, state, 200)
                   ELSE /\ last' = CallbackResp(code, state, 404)
                        /\ UNCHANGED sessions
  /\ UNCHANGED <<mode, gscClient, transport, nextId, streams, inflight, opened,
                 closed, loads,
                 clientFrom, catalogs>>

\* process-wide: if (code) { try { handleCallback; gscClient = new GSCClient;
\* 200 } catch { 500 } } else 400
ProcessCallback(code) ==
  /\ mode = "process"
  /\ IF code = NULL
       THEN /\ last' = CallbackResp(code, NoId, 400)
            /\ UNCHANGED <<gscClient, credentials, tokenFile, clientFrom>>
       ELSE IF getTokenFails(code)
         THEN /\ last' = CallbackResp(code, NoId, 500)
              /\ UNCHANGED <<gscClient, credentials, tokenFile, clientFrom>>
         ELSE /\ credentials' = handleCallbackCredentials(credentials, getToken(code))
              /\ tokenFile' = handleCallbackTokenFile(tokenFile, getToken(code))
              /\ gscClient' = "GSCClient"
              /\ clientFrom' = "callback"
              /\ last' = CallbackResp(code, NoId, 200)
  /\ UNCHANGED <<mode, sessions, transport, nextId, streams, inflight, opened,
                 closed, loads, catalogs>>

\* ------------------------------------------------------------------ GET /auth

\* per-session: if (!sessionId) 400 else res.redirect(auth.getAuthUrl(sessionId))
SessionAuth(sessionId) ==
  /\ mode = "session"
  /\ last' = IF sessionId = NoId
               THEN Resp("auth", NoId, 400)
               ELSE [Resp("auth", sessionId, 302) EXCEPT !.url = getAuthUrl(sessionId)]
  /\ UNCHANGED <<mode, sessions, gscClient, transport, credentials, tokenFile,
                 nextId, streams, inflight, opened, closed, loads,
                 clientFrom, catalogs>>

\* process-wide: res.redirect(auth.getAuthUrl())
ProcessAuth ==
  /\ mode = "process"
  /\ last' = [Resp("auth", NoId, 302) EXCEPT !.url = getAuthUrl(NoId)]
  /\ UNCHANGED <<mode, sessions, gscClient, transport, credentials, tokenFile,
                 nextId, streams, inflight, opened, closed, loads,
                 clientFrom, catalogs>>

\* --------------------------------------------------------------------- GET /
\* the status page; last.message is the status it shows

\* per-session: a fixed page, Status: Running
SessionStatus ==
  /\ mode = "session"
  /\ last' = [Resp("status", NoId, 200) EXCEPT !.message = "Running"]
  /\ UNCHANGED <<mode, sessions, gscClient, transport, credentials, tokenFile,
                 nextId, streams, inflight, opened, closed, loads,
                 clientFrom, catalogs>>

\* variant: the page shows Authenticated whatever getClient returned
StatusOf_Always(found) == "Authenticated"

\* const status = oAuthClient ? 'Authenticated' : 'Not Authenticated'
StatusOf(found) == IF found THEN "Authenticated" ELSE "Not Authenticated"

\* const authLink = oAuthClient ? '' : '<p><a href="/auth">...</a></p>'
AuthLinkOf(found) == IF found THEN "none" ELSE "/auth"

\* process-wide: const oAuthClient = await auth.getClient();
\* status = oAuthClient ? 'Authenticated' : 'Not Authenticated'.
\* last.message is the status shown, last.detail the link shown.
\* getClient reads token.json into the OAuth client again; no GSCClient is
\* built here.
ProcessStatus ==
  /\ mode = "process"
  /\ credentials' = getClientCredentials(tokenFile, credentials)
  /\ last' = [Resp("status", NoId, 200) EXCEPT
                !.message = StatusOf(getClientFound(tokenFile)),
                !.detail = AuthLinkOf(getClientFound(tokenFile))]
  /\ UNCHANGED <<mode, sessions, gscClient, transport, tokenFile,
                 nextId, streams, inflight, opened, closed, loads,
                 clientFrom, catalogs>>

\* ------------------------------------------------ ListToolsRequestSchema handler

\* a tool descriptor: its name and the required entries of its inputSchema
Tool(name, required) == [name |-> name, required |-> required]

\* variant: the per-session entry point advertises the sitemap tools as well
SessionCatalog_WithSitemaps ==
  << Tool("list_sites", {}),
     Tool("get_search_analytics", {"siteUrl", "startDate", "endDate"}),
     Tool("inspect_url", {"siteUrl", "inspectionUrl"}),
     Tool("get_sitemaps", {"siteUrl"}) >>

\* tools: [...] returned by the per-session handler
SessionCatalog ==
  << Tool("list_sites", {}),
     Tool("get_search_analytics", {"siteUrl", "startDate", "endDate"}),
     Tool("inspect_url", {"siteUrl", "inspectionUrl"}) >>

\* variant: the sitemap tools are listed only once a client exists
ProcessCatalog_AfterAuth ==
  IF gscClient = NULL
    THEN << Tool("list_sites", {}) >>
    ELSE << Tool("list_sites", {}),
            Tool("get_search_analytics", {"siteUrl", "startDate", "endDate"}),
            Tool("get_top_queries", {"siteUrl", "startDate", "endDate"}),
            Tool("inspect_url", {"siteUrl", "inspectionUrl"}),
            Tool("get_sitemaps", {"siteUrl"}),
            Tool("submit_sitemap", {"siteUrl", "feedpath"}) >>

\* tools: [...] returned by the process-wide handler
ProcessCatalog ==
  << Tool("list_sites", {}),
     Tool("get_search_analytics", {"siteUrl", "startDate", "endDate"}),
     Tool("get_top_queries", {"siteUrl", "startDate", "endDate"}),
     Tool("inspect_url", {"siteUrl", "inspectionUrl"}),
     Tool("get_sitemaps", {"siteUrl"}),
     Tool("submit_sitemap", {"siteUrl", "feedpath"}) >>

\* per-session: server.setRequestHandler(ListToolsRequestSchema, async () => ...)
\* on the server created for id; it looks at neither the registry nor the
\* request
SessionListTools(id) ==
  /\ mode = "session"
  /\ inflight[id] > 0
  /\ inflight' = [inflight EXCEPT ![id] = @ - 1]
  /\ last' = ListResp(id, SessionCatalog, AnswerStream(id))
  /\ catalogs' = catalogs \cup {SessionCatalog}
  /\ UNCHANGED <<mode, sessions, gscClient, transport, credentials, tokenFile,
                 nextId, streams, opened, closed, loads, clientFrom>>

\* process-wide: the one server's list-tools handler; id names the client
\* that posted the request
ProcessListTools(id) ==
  /\ mode = "process"
  /\ inflight[id] > 0
  /\ inflight' = [inflight EXCEPT ![id] = @ - 1]
  /\ last' = ListResp(id, ProcessCatalog, AnswerStream(transport))
  /\ catalogs' = catalogs \cup {ProcessCatalog}
  /\ UNCHANGED <<mode, sessions, gscClient, transport, credentials, tokenFile,
                 nextId, streams, opened, closed, loads, clientFrom>>

\* ------------------------------------------------------------ process restart

\* process-wide: the process ends and is started again.  Module-level state
\* is initialised anew (auth = new GSCAuth(...), gscClient = null,
\* transport = null), every connection is gone, token.json stays.
ProcessRestart ==
  /\ mode = "process"
  /\ gscClient' = NULL
  /\ transport' = NoId
  /\ credentials' = NULL
  /\ closed' = closed \cup streams
  /\ streams' = {}
  /\ inflight' = [id \in Ids |-> 0]
  /\ loads' = 0
  /\ clientFrom' = "none"
  /\ last' = Resp("restart", NoId, 0)
  /\ UNCHANGED <<mode, sessions, tokenFile, nextId, opened, catalogs>>

\* ------------------------------------------------------------------ the system

Next ==
  \/ SessionSseOpen
  \/ ProcessSseOpen
  \/ \E id \in Ids : SessionSseClose(id)
  \/ \E id \in Ids : SessionSseCloseAgain(id)
  \/ \E id \in Ids : ProcessSseClose(id)
  \/ \E id \in Ids : SessionPost(id)
  \/ \E id \in Ids : ProcessPost(id)
  \/ \E id \in Ids, name \in RequestNames, backend \in BackendOutcomes :
       \E args \in ArgumentChoices(name) :
          SessionCallTool(Message(id, name, args), backend)
  \/ \E id \in Ids, name \in RequestNames, backend \in BackendOutcomes :
       \E args \in ArgumentChoices(name) :
          ProcessCallTool(Message(id, name, args), backend)
  \/ \E code \in Codes \cup {NULL}, state \in Ids \cup {NoId} :
       SessionCallback(code, state)
  \/ \E code \in Codes \cup {NULL} : ProcessCallback(code)
  \/ \E sessionId \in Ids \cup {NoId} : SessionAuth(sessionId)
  \/ ProcessAuth
  \/ SessionStatus
  \/ ProcessStatus
  \/ \E id \in Ids : SessionListTools(id)
  \/ \E id \in Ids : ProcessListTools(id)
  \/ ProcessRestart

Spec == Init /\ [][Next]_vars


\* ====================================================================== claims

\* case labels of the per-session switch
SessionToolNames == {"list_sites", "get_search_analytics", "inspect_url"}

\* case labels of the process-wide switch
ProcessToolNames == {"list_sites", "get_search_analytics", "get_top_queries",
                     "inspect_url", "get_sitemaps", "submit_sitemap"}

DispatchTable == IF mode = "session" THEN SessionToolNames ELSE ProcessToolNames

\* a step in which a call-tool handler ran; last' holds its request and answer
CallStep == last'.op = "call" /\ inflight' # inflight

\* the authentication precondition fails for a request on behalf of sid:
\* per-session no entry or no bound client, process-wide neither an
\* in-memory client nor a token file
NoCredentialFor(sid) ==
  IF mode = "session"
    THEN sid \notin DOMAIN sessions \/ sessions[sid].gscClient = NULL
    ELSE gscClient = NULL /\ tokenFile = NULL

\* C1: in both modes a call-tool request handled while no credential is
\* available is answered with the Authentication-required error and no
\* backend method is invoked for it.
C1_UnauthenticatedCallFails ==
  [][ (CallStep /\ NoCredentialFor(last'.sid)) =>
        /\ last'.kind = "McpError"
        /\ last'.code = "InternalError"
        /\ last'.message = "Authentication required"
        /\ last'.invoked = <<>> ]_vars

C1_Witness ==
  /\ last.op = "call"
  /\ last.message = "Authentication required"
  /\ NoCredentialFor(last.sid)

\* C2 (as stated): whatever the session state, a call-tool request whose
\* tool name is outside the dispatch table is answered Unknown-tool
\* (method not found) and invokes nothing.
C2_UnknownToolAlways ==
  (last.op = "call" /\ last.name \notin DispatchTable) =>
     (last.code = "MethodNotFound" /\ last.invoked = <<>>)

\* C2 (amended): a call-tool request naming a tool outside the dispatch table
\* never invokes a backend method; it is answered Unknown-tool when the
\* authentication precondition holds and Authentication-required when it
\* does not.
C2_UnknownToolAfterAuth ==
  [][ (CallStep /\ last'.name \notin DispatchTable) =>
        /\ last'.invoked = <<>>
        /\ last'.kind = "McpError"
        /\ IF NoCredentialFor(last'.sid)
             THEN last'.message = "Authentication required"
             ELSE last'.code = "MethodNotFound" /\ last'.message = "Unknown tool" ]_vars

C2_Witness ==
  /\ last.op = "call"
  /\ last.name \notin DispatchTable
  /\ last.code = "MethodNotFound"
  /\ last.invoked = <<>>

\* C3: when the backend method a call-tool request reached fails, the handler
\* ends with an McpError of kind InternalError that carries the backend's
\* diagnostic text, and the method was invoked exactly once.
C3_BackendFailureWrapped ==
  (last.op = "call" /\ last.backend \in BackendErrors) =>
     /\ last.kind = "McpError"
     /\ last.code = "InternalError"
     /\ last.detail = last.backend
     /\ Len(last.invoked) = 1

C3_Witness ==
  /\ last.op = "call"
  /\ last.backend \in BackendErrors
  /\ last.code = "InternalError"
  /\ Len(last.invoked) = 1

\* C4: every call-tool request ends either with a result or with the
\* structured McpError envelope; no other fault leaves the handler.
C4_NoUnconvertedFault ==
  last.op = "call" => last.kind \in {"result", "McpError"}

\* C5 (as stated): once a session's stream has closed, every later OAuth
\* callback whose state is that identifier is answered 404 and every later
\* message post for it finds no registry entry.
C5_ClosedSessionAlways404 ==
  mode = "session" =>
    /\ (last.op = "callback" /\ last.sid \in closed) => last.status = 404
    /\ (last.op = "post" /\ last.sid \in closed) => last.status = 404

\* C5 (amended): per-session, once a session's stream has closed the registry
\* holds no entry for its identifier; a later callback whose state is that
\* identifier never binds or answers 200: it answers 404 when its code is
\* exchanged, 400 without a code and 500 when the exchange fails; a later
\* message post for it answers 404 and hands no message to a gateway.
C5_ClosedSessionUnreachable ==
  /\ [](mode = "session" =>
          /\ closed \cap DOMAIN sessions = {}
          /\ (last.op = "callback" /\ last.sid \in closed) =>
                last.status = (IF last.authCode = NULL THEN 400
                               ELSE IF getTokenFails(last.authCode) THEN 500
                               ELSE 404)
          /\ (last.op = "post" /\ last.sid \in closed) => last.status = 404)
  /\ [][ (mode = "session" /\ last'.op = "post" /\ last'.sid \in closed) =>
            inflight' = inflight ]_vars

C5_Witness ==
  /\ mode = "session"
  /\ last.op = "callback"
  /\ last.sid \in closed
  /\ last.status = 404

\* C6: per-session, the registry holds exactly the identifiers that were
\* opened and not yet closed, and a close removes its own entry and leaves
\* every other entry as it was.
C6_RegistryExact ==
  /\ [](mode = "session" => DOMAIN sessions = opened \ closed)
  /\ [][ (mode = "session" /\ last'.op = "close" /\ closed' # closed) =>
            \A t \in (DOMAIN sessions) \ {last'.sid} :
               t \in DOMAIN sessions' /\ sessions'[t] = sessions[t] ]_vars

C6_Witness ==
  /\ mode = "session"
  /\ last.op = "close"
  /\ DOMAIN sessions # {}
  /\ \E t \in DOMAIN sessions : sessions[t].gscClient # NULL

\* the credential a session's tool calls are sent with
CredentialUsedBy(reg, creds, s) ==
  IF s \notin DOMAIN reg \/ reg[s].gscClient = NULL THEN NULL ELSE creds

\* C7: per-session, a callback carrying state = X changes the credential
\* used by no session other than X.
C7_CallbackIsolated ==
  [][ (mode = "session" /\ last'.op = "callback") =>
        \A s \in (DOMAIN sessions) \ {last'.sid} :
           CredentialUsedBy(sessions', credentials', s)
             = CredentialUsedBy(sessions, credentials, s) ]_vars

\* C8: per-session, no action changes the persisted-token store.
C8_NeverPersists ==
  [][ mode = "session" => tokenFile' = tokenFile ]_vars

\* C9: per-session, a session that has a bound client keeps one for as long
\* as it stays in the registry.
C9_AuthenticatedOneWay ==
  [][ mode = "session" =>
        \A s \in (DOMAIN sessions) \cap (DOMAIN sessions') :
           sessions[s].gscClient # NULL => sessions'[s].gscClient # NULL ]_vars

C9_Witness ==
  /\ mode = "session"
  /\ last.op = "callback"
  /\ last.status = 500
  /\ last.sid \in DOMAIN sessions
  /\ sessions[last.sid].gscClient # NULL

\* C10: per-session, the consent URL that GET /auth?sessionId=S redirects to
\* carries S as its state.
C10_AuthUrlCarriesState ==
  (mode = "session" /\ last.op = "auth" /\ last.status = 302) =>
     last.url.state = last.sid

\* C11 (as stated): a callback without a code is answered 400, with a code
\* whose exchange fails 500, with a code whose exchange succeeds and
\* (per-session) a state naming no live session 404, and 200 otherwise.
C11_CallbackByCase ==
  last.op = "callback" =>
    last.status = (IF last.authCode = NULL THEN 400
                   ELSE IF getTokenFails(last.authCode) THEN 500
                   ELSE IF mode = "session" /\ last.sid \notin DOMAIN sessions THEN 404
                   ELSE 200)

\* C11 (amended): a callback is answered with exactly one of 400, 500, 404
\* and 200: 400 without a code and, per-session, also without a state (no
\* exchange is attempted then); otherwise 500 when the exchange fails;
\* otherwise, per-session, 404 when state names no registry entry; otherwise
\* 200, and then the exchanged credential is the one the session named by
\* state (per-session) or the process (process-wide) uses.
C11_CallbackByCaseWithState ==
  [][ last'.op = "callback" =>
        LET missing == last'.authCode = NULL \/ (mode = "session" /\ last'.sid = NoId)
            fails == ~missing /\ getTokenFails(last'.authCode)
            unknown == /\ ~missing
                       /\ ~fails
                       /\ mode = "session"
                       /\ last'.sid \notin DOMAIN sessions
        IN /\ last'.status \in {200, 400, 404, 500}
           /\ last'.status = 400 <=> missing
           /\ last'.status = 500 <=> fails
           /\ last'.status = 404 <=> unknown
           /\ last'.status # 200 => sessions' = sessions /\ gscClient' = gscClient
           /\ last'.status = 200 =>
                /\ credentials' = getToken(last'.authCode)
                /\ IF mode = "session"
                     THEN /\ last'.sid \in DOMAIN sessions'
                          /\ sessions'[last'.sid].gscClient # NULL
                     ELSE gscClient' # NULL ]_vars

C11_Witness ==
  /\ mode = "session"
  /\ last.op = "callback"
  /\ last.status = 200
  /\ sessions[last.sid].gscClient # NULL
  /\ credentials = getToken(last.authCode)

C13_StoredCredentialSurvivesRestart ==
  /\ []((mode = "process" /\ last.op = "callback" /\ last.status = 200) =>
          tokenFile = getToken(last.authCode))
  /\ [][ (mode = "process" /\ tokenFile # NULL) =>
            (tokenFile' # NULL /\ (last'.op = "restart" => tokenFile' = tokenFile)) ]_vars
  /\ [][ (mode = "process" /\ CallStep /\ tokenFile # NULL) =>
            /\ last'.message # "Authentication required"
            /\ gscClient = NULL => credentials' = tokenFile ]_vars

\* a call answered after a restart from tokens that only a callback can have
\* stored
C13_Witness ==
  /\ mode = "process"
  /\ last.op = "call"
  /\ last.kind = "result"
  /\ clientFrom = "file"
  /\ tokenFile = "tok2"
  /\ last.invoked[1].cred = "tok2"

\* C14: the answer to a request posted by a client whose stream is open is
\* written to that client's own stream.
C14_AnswerOnOwnStream ==
  (last.op \in {"call", "list"} /\ last.sid \in streams) => last.stream = last.sid

\* C15: every list-tools request is answered with a result, and all answers
\* ever given carry one and the same catalog.
C15_CatalogConstant ==
  /\ Cardinality(catalogs) <= 1
  /\ last.op = "list" => (last.kind = "result" /\ last.catalog \in catalogs)

C15_Witness ==
  /\ mode = "process"
  /\ last.op = "list"
  /\ gscClient # NULL
  /\ last.catalog \in catalogs

\* the six operations of the Analytics Operation Set
SixOperations == {"list_sites", "get_search_analytics", "inspect_url",
                  "get_sitemaps", "submit_sitemap", "get_top_queries"}

\* C16: in either mode a call-tool request that passes the authentication
\* precondition and names one of the six operations is not answered
\* Unknown-tool.
C16_SixOperationsDispatched ==
  (last.op = "call" /\ last.name \in SixOperations) =>
     last.code # "MethodNotFound"

\* the tool names a catalog advertises
AdvertisedNames(catalog) == {catalog[i].name : i \in 1..Len(catalog)}

\* C17: in each mode the names in the catalog are pairwise distinct, and a
\* call-tool request that passes the authentication precondition reaches a
\* handler (is not answered Unknown-tool) exactly when its tool name is in
\* the catalog that list-tools returned.
C17_CatalogMatchesDispatch ==
  \A c \in catalogs :
    /\ Cardinality(AdvertisedNames(c)) = Len(c)
    /\ (last.op = "call" /\ last.message # "Authentication required") =>
          (last.name \in AdvertisedNames(c) <=> last.code # "MethodNotFound")

C17_Witness ==
  /\ catalogs # {}
  /\ last.op = "call"
  /\ last.kind = "result"
  /\ \E c \in catalogs : last.name \in AdvertisedNames(c)

\* C18 (as stated): a query-analytics call reaches the backend with
\* dimensions ["date"] when the arguments have no dimensions entry, and with
\* the supplied entry, unchanged, when they have one.
C18_DimensionsDefault ==
  (last.op = "call" /\ last.name = "get_search_analytics" /\ Len(last.invoked) = 1) =>
     last.invoked[1].dimensions =
       (IF last.args.dimensions.t = "undefined"
          THEN [t |-> "array", items |-> <<"date">>, n |-> 0]
          ELSE last.args.dimensions)

\* C18 (amended): a query-analytics call reaches the backend with dimensions
\* ["date"] when the arguments have no dimensions entry or one whose value
\* is falsy (null among them), and with the supplied entry, unchanged, when
\* its value is an array, the empty array included.
C18_DimensionsDefaultWhenFalsy ==
  (last.op = "call" /\ last.name = "get_search_analytics" /\ Len(last.invoked) = 1) =>
     last.invoked[1].dimensions =
       (IF last.args.dimensions.t \in {"undefined", "null"}
          THEN [t |-> "array", items |-> <<"date">>, n |-> 0]
          ELSE last.args.dimensions)

C18_Witness ==
  /\ last.op = "call"
  /\ last.name = "get_search_analytics"
  /\ Len(last.invoked) = 1
  /\ last.args.dimensions.t = "null"
  /\ last.invoked[1].dimensions.items = <<"date">>

\* C19: a top-queries call reaches the backend with row limit 10 when the
\* arguments have no limit entry, and with the supplied limit, whatever its
\* value, when they have one.
C19_LimitDefault ==
  (last.op = "call" /\ last.name = "get_top_queries" /\ Len(last.invoked) = 1) =>
     /\ last.invoked[1].method = "searchanalytics.query"
     /\ last.invoked[1].rowLimit =
          (IF last.args.limit.t = "undefined"
             THEN [t |-> "number", items |-> <<>>, n |-> 10]
             ELSE last.args.limit)

C19_Witness ==
  /\ last.op = "call"
  /\ last.name = "get_top_queries"
  /\ Len(last.invoked) = 1
  /\ last.args.limit.t = "undefined"
  /\ last.invoked[1].rowLimit.n = 10

\* C20: per-session, a callback whose state names a session that already has
\* a credential leaves the credential that session uses as it was.
C20_BindingChangesOnce ==
  [][ (mode = "session" /\ last'.op = "callback" /\ last'.sid \in DOMAIN sessions) =>
        (CredentialUsedBy(sessions, credentials, last'.sid) # NULL =>
           CredentialUsedBy(sessions', credentials', last'.sid)
             = CredentialUsedBy(sessions, credentials, last'.sid)) ]_vars

\* C21: per-session, a call-tool request handled when its session has no
\* registry entry any more (its post was accepted before the close) invokes
\* no backend method.
C21_NoBackendAfterRemoval ==
  [][ (mode = "session" /\ CallStep /\ last'.sid \notin DOMAIN sessions) =>
        /\ last'.invoked = <<>>
        /\ last'.kind = "McpError" ]_vars

C21_Witness ==
  /\ mode = "session"
  /\ last.op = "call"
  /\ last.sid \in closed
  /\ last.sid \notin DOMAIN sessions
  /\ credentials # NULL
  /\ last.invoked = <<>>

\* C22: a callback answered 500 or 404 leaves the registry, every session's
\* client, the shared OAuth client's credentials and token.json unchanged.
C22_FailedCallbackChangesNothing ==
  [][ (last'.op = "callback" /\ last'.status \in {404, 500}) =>
        /\ sessions' = sessions
        /\ gscClient' = gscClient
        /\ credentials' = credentials
        /\ tokenFile' = tokenFile ]_vars

\* the credential the process-wide tool calls are sent with
CredentialInUse(client, creds) == IF client = NULL THEN NULL ELSE creds

\* C23: process-wide, the status page shows Authenticated exactly when a
\* call-tool request handled at that moment would pass the authentication
\* precondition (a client in memory or token.json present) and shows the
\* /auth link exactly when it does not; rendering it changes neither the
\* client in memory, nor token.json, nor the credential tool calls are sent
\* with.
C23_StatusTruthful ==
  /\ []((mode = "process" /\ last.op = "status") =>
          /\ last.message \in {"Authenticated", "Not Authenticated"}
          /\ last.message = "Authenticated" <=> (gscClient # NULL \/ tokenFile # NULL)
          /\ last.detail = "/auth" <=> last.message = "Not Authenticated")
  /\ [][ (mode = "process" /\ last'.op = "status") =>
            /\ gscClient' = gscClient
            /\ tokenFile' = tokenFile
            /\ CredentialInUse(gscClient', credentials')
                 = CredentialInUse(gscClient, credentials) ]_vars

C23_Witness ==
  /\ mode = "process"
  /\ last.op = "status"
  /\ last.message = "Authenticated"
  /\ gscClient = NULL
  /\ credentials = tokenFile

\* C24: per-session, when the close listener runs for an identifier that
\* has been removed already, the registry stays exactly as it was: no entry
\* of another session is removed or altered, and the listener ends normally.
C24_RemovalIdempotent ==
  [][ (mode = "session" /\ last'.op = "close" /\ last'.sid \in closed) =>
        /\ sessions' = sessions
        /\ last'.sid \notin DOMAIN sessions'
        /\ last'.kind = "none" ]_vars

C24_Witness ==
  /\ mode = "session"
  /\ last.op = "close"
  /\ last.message = "absent"
  /\ last.sid \in closed
  /\ \E t \in DOMAIN sessions : sessions[t].gscClient # NULL

====
